---- MODULE Spec2Model ----
(***************************************************************************)
(* Model of the inmobilia-ai lead-qualification assistant: the LeadData    *)
(* record (src/models/lead_data.py), the supervisor's routing              *)
(* (src/agents/supervisor_agent.py), the specialised handlers              *)
(* (src/agents/*_agent.py) and the conversation loop                       *)
(* (src/graphs/inmobilia_graph.py).                                        *)
(*                                                                         *)
(* Encoding of Python values.  Every field value is an integer:            *)
(*   None (-1)  Python None, and an absent dict key as seen by dict.get    *)
(*   0          a falsy value that is not None: "", 0, 0.0, False          *)
(*   n >= 1     a truthy value; different n are different values; for the  *)
(*              two budget fields n is the amount, for consentimiento 1 is *)
(*              True.                                                      *)
(* So `x is None` is x = None, `not x` is ~Truthy(x), `x is True` is x = 1.*)
(***************************************************************************)
EXTENDS Integers, Sequences, FiniteSets, TLC

None == -1

Truthy(v) == v # None /\ v # 0

Range(s) == {s[i] : i \in 1..Len(s)}

(***************************************************************************)
(* Bounds of the model.                                                    *)
(***************************************************************************)
\* budget amounts are 1..MaxBudget
MaxBudget == 2

(***************************************************************************)
(* LeadData: fields and priority tiers.                                    *)
(***************************************************************************)
p10_fields == <<"nombre", "tipo_inmueble", "consentimiento">>
p9_fields == <<"celular", "email", "distrito", "metraje">>
p8_fields == <<"habitaciones", "presupuesto_min", "presupuesto_max">>
p7_fields == <<"tipo_documento", "numero_documento", "timeline_compra">>

LeadFields ==
    Range(p10_fields) \cup Range(p9_fields) \cup Range(p8_fields)
        \cup Range(p7_fields) \cup {"zona"}

BudgetFields == {"presupuesto_min", "presupuesto_max"}

\* The four lifecycle states.
EstadoLead == {"ConversacionIniciada", "PreLead", "Lead", "LeadEnriquecido"}

\* A lead with no field set.
NoFields == [f \in LeadFields |-> None]

\* The model validator: swap the two budgets when both are set and reversed.
\* It runs at construction and, the model being validate_assignment, after
\* every attribute assignment.  The two assignments inside it re-enter the
\* validator: after the first both budgets are equal, after the second they
\* are ordered, so the nested runs change nothing.
check_presupuesto_range_noswap(fields) == fields

check_presupuesto_range(fields) ==
    IF /\ fields["presupuesto_min"] # None
       /\ fields["presupuesto_max"] # None
       /\ fields["presupuesto_min"] > fields["presupuesto_max"]
    THEN [fields EXCEPT !["presupuesto_min"] = fields["presupuesto_max"],
                        !["presupuesto_max"] = fields["presupuesto_min"]]
    ELSE fields

\* LeadData(**kwargs): the given fields (keys that are no field are ignored
\* by the caller of this operator), the budget validator, estado at its
\* default.  update_estado is not called by the constructor.  The values
\* reaching the constructor are already typed, so the field validators
\* return them unchanged.
LeadData(kwargs) ==
    [exists |-> TRUE,
     fields |-> check_presupuesto_range(kwargs),
     estado |-> "ConversacionIniciada",
     fecha_consentimiento |-> None]

\* state["lead_obj"] = None
NoLead ==
    [exists |-> FALSE, fields |-> NoFields, estado |-> "ConversacionIniciada",
     fecha_consentimiento |-> None]

Count(fs, fields) == Cardinality({i \in 1..Len(fs) : fields[fs[i]] # None})

update_estado_p8_one(fields) ==
    LET p10_missing == SelectSeq(p10_fields, LAMBDA f : fields[f] = None)
        p9_completed == Count(p9_fields, fields)
        p8_completed == Count(p8_fields, fields)
    IN  IF p10_missing # <<>> THEN "ConversacionIniciada"
        ELSE IF p9_completed < 2 THEN "PreLead"
        ELSE IF p9_completed >= 2 /\ p8_completed < 1 THEN "Lead"
        ELSE "LeadEnriquecido"

\* LeadData.update_estado: the estado the method assigns.
update_estado(fields) ==
    LET p10_missing == SelectSeq(p10_fields, LAMBDA f : fields[f] = None)
        p9_completed == Count(p9_fields, fields)
        p8_completed == Count(p8_fields, fields)
    IN  IF p10_missing # <<>> THEN "ConversacionIniciada"
        ELSE IF p10_missing = <<>> /\ p9_completed < 2 THEN "PreLead"
        ELSE IF p9_completed >= 2 /\ p8_completed < 2 THEN "Lead"
        ELSE "LeadEnriquecido"

\* LeadData.is_core_complete
is_core_complete(fields) ==
    /\ fields["nombre"] # None
    /\ fields["tipo_inmueble"] # None
    /\ fields["consentimiento"] = 1

\* LeadData.is_contact_complete
is_contact_complete(fields) ==
    fields["celular"] # None \/ fields["email"] # None

Missing(fs, fields) == SelectSeq(fs, LAMBDA f : fields[f] = None)

\* LeadData.get_missing_fields(priority)
get_missing_fields(fields, priority) ==
    (IF priority >= 10 THEN Missing(p10_fields, fields) ELSE <<>>)
    \o (IF priority >= 9 THEN Missing(p9_fields, fields) ELSE <<>>)
    \o (IF priority >= 8 THEN Missing(p8_fields, fields) ELSE <<>>)
    \o (IF priority >= 7 THEN Missing(p7_fields, fields) ELSE <<>>)

\* setattr(self, key, value) on the validate_assignment model: the field is
\* assigned and the model validator runs.
SetAttr(fields, key, value) ==
    check_presupuesto_range([fields EXCEPT ![key] = value])

\* The loop of update_from_dict over data.items().  A value of None is
\* skipped; so is a key that is no attribute.  Assignments to fields other
\* than the budgets commute; the two budgets are assigned in the order the
\* dict holds them, min_first telling which.
ApplyItems(fields, data, min_first) ==
    LET others == [f \in LeadFields |->
                     IF f \notin BudgetFields /\ data[f] # None
                     THEN data[f] ELSE fields[f]]
        first == IF min_first THEN "presupuesto_min" ELSE "presupuesto_max"
        second == IF min_first THEN "presupuesto_max" ELSE "presupuesto_min"
        a == IF data[first] # None THEN SetAttr(others, first, data[first])
             ELSE others
    IN  IF data[second] # None THEN SetAttr(a, second, data[second]) ELSE a

\* LeadData.update_from_dict(data)
update_from_dict(obj, data, min_first) ==
    LET fields == ApplyItems(obj.fields, data, min_first)
    IN  [obj EXCEPT !.fields = fields, !.estado = update_estado(fields)]

(***************************************************************************)
(* The conversation state (AgentState) and the supervisor's routing.       *)
(***************************************************************************)
\* Keys of the plain lead_data dict: the LeadData fields and the two keys
\* the handlers add.
DictKeys == LeadFields \cup {"fecha_consentimiento", "ultima_interaccion"}

EmptyDict == [k \in DictKeys |-> None]

\* The fields of ExtractedData, the structured output of the extraction.
ExtractedFields ==
    {"nombre", "email", "celular", "tipo_inmueble", "distrito", "zona",
     "presupuesto_min", "presupuesto_max", "metraje", "habitaciones",
     "consentimiento", "timeline_compra"}

\* RouterResponse.next
Targets == {"legal", "collector", "location", "preferences", "END"}

Handlers == {"legal", "collector", "location", "preferences"}

\* state["next"] = None
NoNext == "None"

\* langgraph's END, the key of the edge table's last entry; router_node
\* converts the string "END" to it before it returns its Command.
END == "__end__"

\* The path map of add_conditional_edges("supervisor", decide_next_agent, ...)
EdgeTable ==
    [k \in Handlers \cup {END} |-> k]

\* A user message, by what the code looks for in it:
\*   empty    the empty string
\*   words    the keyword classes of which it contains a word: "farewell",
\*            "pref", "loc", "coll" (decide_next_agent) and "consent" (the
\*            legal handler's consent_words)
\*   content  the field values the handlers' regular expressions find in it
WordClasses == {"farewell", "pref", "loc", "coll", "consent"}

EmptyMessage == [empty |-> TRUE, words |-> {}, content |-> NoFields]

\* dict(**lead_data) seen by LeadData: the keys that are fields ("extra":
\* "ignore" drops the others).
AsKwargs(ld) == [f \in LeadFields |-> ld[f]]

\* SupervisorAgent.decide_next_agent(state), on the four entries of the
\* state it reads.
decide_next_agent(ld, obj, nxt, msg) ==
    IF nxt # NoNext /\ nxt # "supervisor" THEN nxt
    ELSE IF "farewell" \in msg.words /\ Truthy(ld["consentimiento"]) THEN "END"
    ELSE IF ~Truthy(ld["consentimiento"]) THEN "legal"
    ELSE IF /\ Truthy(ld["consentimiento"])
            /\ \/ ~Truthy(ld["nombre"])
               \/ ~(Truthy(ld["celular"]) \/ Truthy(ld["email"]))
         THEN "collector"
    ELSE IF /\ Truthy(ld["consentimiento"])
            /\ (~Truthy(ld["distrito"]) \/ ~Truthy(ld["tipo_inmueble"]))
         THEN "location"
    ELSE IF /\ Truthy(ld["consentimiento"])
            /\ Truthy(ld["tipo_inmueble"])
            /\ (~Truthy(ld["presupuesto_max"]) \/ ~Truthy(ld["habitaciones"]))
         THEN "preferences"
    ELSE IF obj.exists /\ obj.estado = "LeadEnriquecido" THEN "END"
    ELSE IF "pref" \in msg.words THEN "preferences"
    ELSE IF "loc" \in msg.words THEN "location"
    ELSE IF "coll" \in msg.words THEN "collector"
    ELSE IF Truthy(ld["consentimiento"]) THEN "preferences"
    ELSE "legal"

(***************************************************************************)
(* State.                                                                  *)
(***************************************************************************)
VARIABLES
    lead_obj,        \* state["lead_obj"]: the LeadData object (NoLead: None)
    lead_data,       \* state["lead_data"]: the plain dict
    next,            \* state["next"]
    current_message, \* state["current_message"]
    error,           \* state["error"] is set
    caller,          \* what the state passed to process_message held when
                     \* the run began: the caller keeps it if the run raises
    aliased,         \* state["lead_data"] is still the caller's dict object
    consent_obtained,\* LegalAgent.consent_obtained
    steps,           \* nodes the current run has executed
    turns,           \* user messages processed
    decision,        \* the routing decision being dispatched: who made
                     \* it, what the LLM router did, and the target
    clobbered,       \* the last router or handler step replaced a non-empty
                     \* value of the lead
    missing,         \* the list the last get_missing_fields call returned
    priority,        \* the priority it was called with (0: not called)
    swapped,         \* the budget validator exchanged the two values in the
                     \* last operation on the record
    last_node,       \* the node of the graph that ran last in the current
                     \* run ("none": no node yet, or the run is gone)
    routing_decisions, \* state["routing_decisions"]: how many entries
                     \* router_node appended to the list since
                     \* process_message was called, and the target of the
                     \* list's last entry
    saved,           \* what save_lead_data last stored under the session id
    failure,         \* the exception that ended the current run: where it
                     \* was raised, and whether a value the run held for
                     \* the lead is in neither the dict nor the object of
                     \* the state process_message returns
    consent_alone,   \* what LegalAgent.consent_obtained would be had the
                     \* handler served the turns of this session only
    messages,        \* state["messages"]: the message log
    analytics,       \* the analytics call of the step just taken: the
                     \* event, and whether it was recorded
    stored,          \* the mapping save_lead_data wrote (NoFile: none)
    loaded,          \* the object get_lead_object returned
    mvp_state,       \* the MVP graph's state dict
    mvp_node,        \* the node of the MVP graph that is due
    mvp_message,     \* the message the last MVP handler was called with
    mvp_response,    \* the response the last MVP handler returned
    calls,           \* the process_message calls submitted together for
                     \* one session, each with its run's state
    pc               \* where the program is

vars == <<lead_obj, lead_data, next, current_message, error, caller, aliased,
          consent_obtained, steps, turns, decision, clobbered, missing,
          priority, swapped, last_node, routing_decisions, saved, failure,
          consent_alone, messages, analytics, stored, loaded, mvp_state,
          mvp_node, mvp_message, mvp_response, calls, pc>>

sessionVars == <<lead_data, next, current_message, error, caller, aliased,
                 consent_obtained, steps, turns, decision, clobbered,
                 last_node, routing_decisions, saved, failure, consent_alone,
                 messages, analytics>>

repoVars == <<stored, loaded>>

mvpVars == <<mvp_state, mvp_node, mvp_message, mvp_response>>

\* What overlapping calls leave alone.
overlapFrame == <<error, caller, aliased, consent_obtained, steps, turns,
                  decision, clobbered, missing, priority, swapped, last_node,
                  routing_decisions, failure, consent_alone, analytics, pc,
                  repoVars, mvpVars>>

NoDecision == [by |-> "none", llm |-> "none", target |-> "none"]

NoFailure == [in |-> "none", lost |-> FALSE]

\* routing_decisions with nothing appended in this turn.
NoneAppended == [len |-> 0, last |-> "none"]

\* No analytics call in the step just taken.
NoAnalytics == [event |-> "none", recorded |-> FALSE]

\* The message log start_conversation returns: get_initial_state("") puts
\* the empty string in as a user message, then the welcome message is
\* appended.
InitialMessages ==
    <<[role |-> "user", content |-> "empty"],
      [role |-> "assistant", content |-> "welcome"]>>

\* What the caller's state holds when a conversation starts.
InitialCaller ==
    [lead_data |-> EmptyDict, next |-> NoNext, has_obj |-> FALSE,
     messages |-> InitialMessages]

\* get_initial_state / start_conversation: the state before the first user
\* message.
SessionIdle ==
    /\ lead_data = EmptyDict
    /\ next = NoNext
    /\ current_message = EmptyMessage
    /\ error = FALSE
    /\ caller = InitialCaller
    /\ messages = InitialMessages
    /\ analytics = NoAnalytics
    /\ aliased = TRUE
    /\ consent_obtained = FALSE
    /\ steps = 0
    /\ turns = 0
    /\ decision = NoDecision
    /\ clobbered = FALSE
    /\ last_node = "none"
    /\ routing_decisions = NoneAppended
    /\ saved = NoLead
    /\ failure = NoFailure
    /\ consent_alone = FALSE

\* No file under the session id, and nothing read back.
NoFile ==
    [exists |-> FALSE, items |-> [k \in {} |-> None], estado |-> "none",
     metadata |-> [k \in {} |-> None], last_updated |-> FALSE]

RepoIdle ==
    /\ stored = NoFile
    /\ loaded = NoLead

\* mvp_graph: the state of a new conversation in api/main.py, `state = {}`,
\* with the graph's entry point due.  A key the dict lacks reads as None
\* (lead_data), as "none" (current_flow) or as no entry (history).
MvpLeadFields == {"nombre", "tipo_inmueble", "consentimiento"}

MvpEmptyState ==
    [initialized |-> FALSE,
     lead_data |-> [f \in MvpLeadFields |-> None],
     history |-> <<>>,
     current_flow |-> "none"]

NoMvpMessage == [blank |-> TRUE, property_type |-> None, affirmative |-> FALSE]

MvpIdle ==
    /\ mvp_state = MvpEmptyState
    /\ mvp_node = "welcome"
    /\ mvp_message = NoMvpMessage
    /\ mvp_response = "none"

\* The process_message calls one session may have in flight together.
Callers == {1, 2}

\* A call not yet submitted.  A call in flight holds its message, what its
\* run extracted from it and the route its run took, and its run's state.
NoCall ==
    [pc |-> "none", message |-> EmptyMessage, data |-> NoFields,
     route |-> "none", lead_data |-> EmptyDict, lead_obj |-> NoLead,
     shared_obj |-> FALSE, messages |-> <<>>, own_log |-> FALSE]

CallsIdle == calls = [c \in Callers |-> NoCall]

(***************************************************************************)
(* The Lead Record on its own: any construction, then any sequence of      *)
(* update_from_dict, update_estado and get_missing_fields calls.           *)
(***************************************************************************)
StrVals == {None, 1}
BoolVals == {None, 0, 1}
BudgetVals == {None} \cup (1..MaxBudget)

MkFields(no, ti, co, ce, em, di, me, ha, pmin, pmax, td, nd, tl, zo) ==
    [f \in LeadFields |->
        CASE f = "nombre" -> no
          [] f = "tipo_inmueble" -> ti
          [] f = "consentimiento" -> co
          [] f = "celular" -> ce
          [] f = "email" -> em
          [] f = "distrito" -> di
          [] f = "metraje" -> me
          [] f = "habitaciones" -> ha
          [] f = "presupuesto_min" -> pmin
          [] f = "presupuesto_max" -> pmax
          [] f = "tipo_documento" -> td
          [] f = "numero_documento" -> nd
          [] f = "timeline_compra" -> tl
          [] OTHER -> zo]

\* The keyword-argument mappings the constructor is given.  The two document
\* fields come together, as CollectorAgent._extract_data finds them; zona is
\* left out.
LeadKwargs ==
    {MkFields(no, ti, co, ce, em, di, me, ha, pmin, pmax, doc, doc, tl, None) :
        no \in StrVals, ti \in StrVals, co \in BoolVals, ce \in StrVals,
        em \in StrVals, di \in StrVals, me \in StrVals, ha \in StrVals,
        pmin \in BudgetVals, pmax \in BudgetVals, doc \in StrVals,
        tl \in StrVals}

FieldVals(f) ==
    IF f \in BudgetFields THEN 1..MaxBudget
    ELSE IF f = "consentimiento" THEN {0, 1}
    ELSE {1}

\* The dicts given to update_from_dict: one key, the two document fields,
\* or the two budgets (in either order of insertion, which only matters
\* when both are present).
UpdateDicts ==
    UNION {{[NoFields EXCEPT ![f] = v] : v \in FieldVals(f)} :
             f \in LeadFields \ {"tipo_documento", "numero_documento"}}
    \cup {[NoFields EXCEPT !["tipo_documento"] = 1, !["numero_documento"] = 1]}
    \cup {[NoFields EXCEPT !["presupuesto_min"] = a, !["presupuesto_max"] = b] :
            a \in 1..MaxBudget, b \in 1..MaxBudget}

\* The budgets are both set and reversed: the validator's condition.
Reversed(fields) ==
    /\ fields["presupuesto_min"] # None
    /\ fields["presupuesto_max"] # None
    /\ fields["presupuesto_min"] > fields["presupuesto_max"]

\* Some assignment of update_from_dict(data) makes the validator swap.
SwapsOnUpdate(fields, data, min_first) ==
    LET first == IF min_first THEN "presupuesto_min" ELSE "presupuesto_max"
        second == IF min_first THEN "presupuesto_max" ELSE "presupuesto_min"
        a == IF data[first] # None THEN [fields EXCEPT ![first] = data[first]]
             ELSE fields
        b == check_presupuesto_range(a)
    IN  \/ Reversed(a)
        \/ data[second] # None /\ Reversed([b EXCEPT ![second] = data[second]])

LeadInit ==
    /\ \E k \in LeadKwargs :
          /\ lead_obj = LeadData(k)
          /\ swapped = Reversed(k)
    /\ missing = <<>>
    /\ priority = 0
    /\ pc = "built"
    /\ SessionIdle
    /\ RepoIdle
    /\ MvpIdle
    /\ CallsIdle

LeadUpdateFromDict ==
    /\ pc \in {"built", "updated"}
    /\ \E data \in UpdateDicts, min_first \in BOOLEAN :
          /\ min_first \/ \A f \in BudgetFields : data[f] # None
          /\ lead_obj' = update_from_dict(lead_obj, data, min_first)
          /\ swapped' = SwapsOnUpdate(lead_obj.fields, data, min_first)
    /\ pc' = "updated"
    /\ UNCHANGED <<missing, priority, sessionVars, repoVars, mvpVars, calls>>

LeadUpdateEstado ==
    /\ pc = "built"
    /\ lead_obj' = [lead_obj EXCEPT !.estado = update_estado(lead_obj.fields)]
    /\ pc' = "estado"
    /\ UNCHANGED <<missing, priority, swapped, sessionVars, repoVars, mvpVars,
                   calls>>

LeadGetMissingFields ==
    /\ pc = "built"
    /\ \E p \in {7, 8, 9, 10} :
          /\ missing' = get_missing_fields(lead_obj.fields, p)
          /\ priority' = p
    /\ pc' = "missing"
    /\ UNCHANGED <<lead_obj, swapped, sessionVars, repoVars, mvpVars, calls>>

\* A to_dict that leaves out every falsy value.
to_dict_truthy(obj) ==
    [items |-> [k \in {f \in LeadFields : Truthy(obj.fields[f])}
                  |-> obj.fields[k]],
     estado |-> obj.estado,
     metadata |-> [k \in (IF Truthy(obj.fecha_consentimiento)
                          THEN {"fecha_consentimiento"} ELSE {})
                     |-> obj.fecha_consentimiento]]

\* LeadData.to_dict: model_dump(exclude_none=True).  The mapping has the
\* fields that are not None, estado, and of the metadata what is not None.
to_dict(obj) ==
    [items |-> [k \in {f \in LeadFields : obj.fields[f] # None}
                  |-> obj.fields[k]],
     estado |-> obj.estado,
     metadata |-> [k \in (IF obj.fecha_consentimiento # None
                          THEN {"fecha_consentimiento"} ELSE {})
                     |-> obj.fecha_consentimiento]]

\* save_lead_data: the object's mapping with "last_updated" added, written
\* under the session id.
save_lead_data(obj) ==
    LET data_dict == to_dict(obj)
    IN  [exists |-> TRUE, items |-> data_dict.items,
         estado |-> data_dict.estado, metadata |-> data_dict.metadata,
         last_updated |-> TRUE]

\* LeadData.model_validate on a mapping read back: the constructor with the
\* mapping's fields, its validators included, estado and metadata as the
\* mapping has them, and "last_updated", no field of the model, ignored.
model_validate(data) ==
    LET kwargs == [f \in LeadFields |->
                      IF f \in DOMAIN data.items THEN data.items[f] ELSE None]
    IN  [LeadData(kwargs) EXCEPT
            !.estado = data.estado,
            !.fecha_consentimiento =
                IF "fecha_consentimiento" \in DOMAIN data.metadata
                THEN data.metadata["fecha_consentimiento"] ELSE None]

\* get_lead_object: None when there is no file.
get_lead_object(file) == IF file.exists THEN model_validate(file) ELSE NoLead

LeadSave ==
    /\ pc \in {"built", "estado", "updated"}
    /\ stored' = save_lead_data(lead_obj)
    /\ pc' = "saved"
    /\ UNCHANGED <<lead_obj, missing, priority, swapped, loaded, sessionVars,
                   mvpVars, calls>>

LeadLoad ==
    /\ pc = "saved"
    /\ loaded' = get_lead_object(stored)
    /\ pc' = "loaded"
    /\ UNCHANGED <<lead_obj, missing, priority, swapped, stored, sessionVars,
                   mvpVars, calls>>

LeadNext ==
    \/ LeadUpdateFromDict
    \/ LeadUpdateEstado
    \/ LeadGetMissingFields
    \/ LeadSave
    \/ LeadLoad

LeadSpec == LeadInit /\ [][LeadNext]_vars

(***************************************************************************)
(* Properties of the Lead Record.                                          *)
(***************************************************************************)
Set(fs, fields) == {f \in Range(fs) : fields[f] # None}

\* C3 (swap law): whenever both budget bounds of a lead are set, the stored
\* minimum is at most the stored maximum, after construction and after
\* every update.
SwapLaw ==
    (/\ lead_obj.exists
     /\ lead_obj.fields["presupuesto_min"] # None
     /\ lead_obj.fields["presupuesto_max"] # None)
        => lead_obj.fields["presupuesto_min"] <= lead_obj.fields["presupuesto_max"]

\* An update gave the bounds reversed and the validator exchanged them.
SwapLawWitness ==
    /\ pc = "updated"
    /\ swapped
    /\ lead_obj.fields["presupuesto_min"] < lead_obj.fields["presupuesto_max"]

\* C4 (status never stale): whenever a lead exists, its stored status is
\* the status the algorithm computes from its current fields.
StatusNeverStale ==
    lead_obj.exists => lead_obj.estado = update_estado(lead_obj.fields)

\* The status the four-step algorithm of the lifecycle gives, by the tiers'
\* sets of fields.
StatusOf(fields) ==
    IF Set(p10_fields, fields) # Range(p10_fields) THEN "ConversacionIniciada"
    ELSE IF Cardinality(Set(p9_fields, fields)) < 2 THEN "PreLead"
    ELSE IF Cardinality(Set(p8_fields, fields)) < 2 THEN "Lead"
    ELSE "LeadEnriquecido"

TestLeadEnriquecido(fields) ==
    /\ Set(p10_fields, fields) = Range(p10_fields)
    /\ fields["consentimiento"] = 1
    /\ Set(p9_fields, fields) = Range(p9_fields)
    /\ Set(p8_fields, fields) = {"habitaciones"}
    /\ Set(p7_fields, fields) = {"tipo_documento", "numero_documento"}

\* C6 (the unit test's assertion): for the lead of test_update_estado,
\* update_estado yields LeadEnriquecido.
TestAssertsLeadEnriquecido ==
    (pc = "estado" /\ TestLeadEnriquecido(lead_obj.fields))
        => lead_obj.estado = "LeadEnriquecido"

\* The unset fields of the tiers with priority at least t, highest tier
\* first.
MissingAtOrAbove(fields, t) ==
    (IF 10 >= t THEN Missing(p10_fields, fields) ELSE <<>>)
    \o (IF 9 >= t THEN Missing(p9_fields, fields) ELSE <<>>)
    \o (IF 8 >= t THEN Missing(p8_fields, fields) ELSE <<>>)
    \o (IF 7 >= t THEN Missing(p7_fields, fields) ELSE <<>>)

\* C7 (missing fields by tier): get_missing_fields(t) returns the unset
\* fields of all tiers with priority at or above t, highest tier first.
MissingFieldsByTier ==
    pc = "missing" => missing = MissingAtOrAbove(lead_obj.fields, priority)

\* C24 (serialization round trip): the mapping to_dict yields has no unset
\* field, and the object get_lead_object builds from what save_lead_data
\* wrote, "last_updated" included, has the fields, the values and the
\* estado of the object that was saved.
RoundTrip ==
    pc = "loaded"
        => (/\ \A k \in DOMAIN stored.items : stored.items[k] # None
            /\ DOMAIN stored.items = {f \in LeadFields : lead_obj.fields[f] # None}
            /\ stored.last_updated
            /\ loaded = lead_obj)

RoundTripWitness ==
    /\ pc = "loaded"
    /\ loaded.exists
    /\ loaded.estado = "Lead"
    /\ loaded.fields["consentimiento"] = 0
    /\ loaded.fields["presupuesto_min"] = 1
    /\ loaded.fields["nombre"] = 1
    /\ loaded.fields["tipo_documento"] = None

\* C30 (status implies core completeness): a record whose estado is
\* PreLead, Lead or LeadEnriquecido has is_core_complete(): nombre and
\* tipo_inmueble set and a consentimiento of True.
StatusImpliesCore ==
    lead_obj.estado \in {"PreLead", "Lead", "LeadEnriquecido"}
        => is_core_complete(lead_obj.fields)

(***************************************************************************)
(* decide_next_agent on its own: every state it may be called on, then the *)
(* call.                                                                   *)
(***************************************************************************)
MkRouting(co, no, ce, em, di, ti, pmax, ha) ==
    [k \in DictKeys |->
        CASE k = "consentimiento" -> co
          [] k = "nombre" -> no
          [] k = "celular" -> ce
          [] k = "email" -> em
          [] k = "distrito" -> di
          [] k = "tipo_inmueble" -> ti
          [] k = "presupuesto_max" -> pmax
          [] k = "habitaciones" -> ha
          [] OTHER -> None]

\* lead_data over the eight keys the function reads.  consentimiento may be
\* False and habitaciones 0, values the extraction can store.
RoutingDicts ==
    {MkRouting(co, no, ce, em, di, ti, pmax, ha) :
        co \in BoolVals, no \in StrVals, ce \in StrVals, em \in StrVals,
        di \in StrVals, ti \in StrVals, pmax \in StrVals, ha \in BoolVals}

\* state["lead_obj"] for a given lead_data: None, the object as constructed
\* from the dict, or the object after its status was recomputed.
RoutingObjs(ld) ==
    LET o == LeadData(AsKwargs(ld))
    IN  {NoLead, o, [o EXCEPT !.estado = update_estado(o.fields)]}

\* Messages by the keyword classes the function looks for.
RoutingMessages ==
    {[empty |-> FALSE, words |-> w, content |-> NoFields] :
        w \in SUBSET {"farewell", "pref", "loc", "coll"}}

PendingNext == {NoNext, "supervisor", "collector"}

DecideInit ==
    /\ lead_data \in RoutingDicts
    /\ lead_obj \in RoutingObjs(lead_data)
    /\ next \in PendingNext
    /\ current_message \in RoutingMessages
    /\ error = FALSE
    /\ caller = InitialCaller
    /\ aliased = TRUE
    /\ consent_obtained = FALSE
    /\ steps = 0
    /\ turns = 0
    /\ decision = NoDecision
    /\ clobbered = FALSE
    /\ last_node = "none"
    /\ routing_decisions = NoneAppended
    /\ saved = NoLead
    /\ failure = NoFailure
    /\ consent_alone = FALSE
    /\ messages = InitialMessages
    /\ analytics = NoAnalytics
    /\ missing = <<>>
    /\ priority = 0
    /\ swapped = FALSE
    /\ RepoIdle
    /\ MvpIdle
    /\ CallsIdle
    /\ pc = "call"

DecideNextAgent ==
    /\ pc = "call"
    /\ decision' = [by |-> "function", llm |-> "none",
                    target |-> decide_next_agent(lead_data, lead_obj, next,
                                                 current_message)]
    /\ pc' = "decided"
    /\ UNCHANGED <<lead_obj, lead_data, next, current_message, error, caller,
                   aliased, consent_obtained, steps, turns, clobbered, missing,
                   priority, swapped, last_node, routing_decisions, saved,
                   failure, consent_alone, messages, analytics>>
    /\ UNCHANGED <<repoVars, mvpVars, calls>>

DecideNext == DecideNextAgent

DecideSpec == DecideInit /\ [][DecideNext]_vars

(***************************************************************************)
(* Properties of decide_next_agent.                                        *)
(***************************************************************************)
Unset(v) == v = None

\* The rules of the cascade in order, each with the target it gives; a
\* field counts as lacking when Lacks says so.
CascadeRules(ld, obj, msg, Lacks(_)) ==
    << [match |-> "farewell" \in msg.words /\ ld["consentimiento"] = 1,
        target |-> "END"],
       [match |-> ld["consentimiento"] # 1, target |-> "legal"],
       [match |-> Lacks(ld["nombre"])
                    \/ (Lacks(ld["celular"]) /\ Lacks(ld["email"])),
        target |-> "collector"],
       [match |-> Lacks(ld["distrito"]) \/ Lacks(ld["tipo_inmueble"]),
        target |-> "location"],
       [match |-> Lacks(ld["presupuesto_max"]) \/ Lacks(ld["habitaciones"]),
        target |-> "preferences"],
       [match |-> obj.exists /\ obj.estado = "LeadEnriquecido",
        target |-> "END"],
       [match |-> "pref" \in msg.words, target |-> "preferences"],
       [match |-> "loc" \in msg.words, target |-> "location"],
       [match |-> "coll" \in msg.words, target |-> "collector"],
       [match |-> TRUE, target |-> "preferences"] >>

FirstMatch(rules) ==
    LET i == CHOOSE n \in 1..Len(rules) :
                 rules[n].match /\ \A m \in 1..(n - 1) : ~rules[m].match
    IN  rules[i].target

NothingPending == next \in {NoNext, "supervisor"}

\* C10 (strict priority cascade): with no target pending, the result of
\* decide_next_agent is the target of the first matching rule of the
\* cascade, a rule about a field matching when the field is unset.
CascadeOnUnset ==
    (pc = "decided" /\ NothingPending)
        => decision.target =
              FirstMatch(CascadeRules(lead_data, lead_obj, current_message, Unset))

(***************************************************************************)
(* The conversation: process_message runs the graph on each user message;  *)
(* the graph alternates the supervisor and the handler it chose.           *)
(***************************************************************************)
\* user messages a session processes
MaxTurns == 2

\* nodes a run may execute: the graph's recursion limit
MaxSteps == 3

CollectorKeys ==
    {"nombre", "email", "celular", "tipo_documento", "numero_documento"}

PreferencesKeys ==
    {"tipo_inmueble", "metraje", "habitaciones", "presupuesto_min",
     "presupuesto_max", "timeline_compra"}

LocationKeys == {"distrito", "zona"}

\* Values the handlers' regular expressions produce for a field.
RegexVals(f) == IF f \in BudgetFields THEN 1..MaxBudget ELSE {1}

\* Values the structured extraction of the supervisor may return for a
\* field: ExtractedData admits False for consentimiento and 0 for
\* habitaciones.
ExtractedVals(f) ==
    IF f \in {"consentimiento", "habitaciones"} THEN {0, 1} ELSE RegexVals(f)

\* The fields the messages of a session mention.  The others are handled
\* as one of these is: celular as email, zona as distrito, metraje and
\* timeline_compra as habitaciones, the document fields as nombre in the
\* collector.
MessageFields ==
    {"nombre", "email", "tipo_inmueble", "distrito", "habitaciones",
     "presupuesto_max"}

\* What the regular expressions find in one message: nothing, one field,
\* one price (the maximum), two different prices (minimum and maximum, by
\* min() and max()), a name and a property type, or a name and an email.
Contents ==
    {NoFields}
    \cup {[NoFields EXCEPT !["nombre"] = 1, !["tipo_inmueble"] = 1]}
    \cup {[NoFields EXCEPT !["nombre"] = 1, !["email"] = 1]}
    \cup UNION {{[NoFields EXCEPT ![f] = v] : v \in RegexVals(f)} :
                  f \in MessageFields}
    \cup UNION {{[NoFields EXCEPT !["presupuesto_min"] = a,
                                  !["presupuesto_max"] = b] : b \in (a + 1)..MaxBudget} :
                  a \in 1..MaxBudget}

\* A message holds a keyword or field values.
UserMessages ==
    {EmptyMessage}
    \cup {[empty |-> FALSE, words |-> {w}, content |-> NoFields] : w \in WordClasses}
    \cup {[empty |-> FALSE, words |-> {}, content |-> c] : c \in Contents}

Keys(d) == {f \in LeadFields : d[f] # None}

Restrict(d, ks) == [f \in LeadFields |-> IF f \in ks THEN d[f] ELSE None]

\* extraction_result.model_dump(exclude_none=True) for a message: of the
\* fields the text mentions none (also when the call fails) or each with a
\* value of the model's choosing, and the consent the model reads into the
\* text, if any.
FieldExtractions(ks) ==
    IF ks = {} THEN {NoFields}
    ELSE IF ks = BudgetFields
    THEN UNION {{[NoFields EXCEPT !["presupuesto_min"] = a,
                                  !["presupuesto_max"] = b] :
                    b \in (1..MaxBudget) \ {a}} : a \in 1..MaxBudget}
    ELSE IF Cardinality(ks) = 1
    THEN UNION {{[NoFields EXCEPT ![f] = v] : v \in ExtractedVals(f)} : f \in ks}
    ELSE {[f \in LeadFields |-> IF f \in ks THEN 1 ELSE None]}

Extractions(msg) ==
    {[d EXCEPT !["consentimiento"] = c] :
        d \in {NoFields} \cup FieldExtractions(Keys(msg.content) \cap ExtractedFields),
        c \in BoolVals}

\* A key of ks held a non-empty value in old and holds another value in new.
Clobbers(old, new, ks) == \E k \in ks : Truthy(old[k]) /\ new[k] # old[k]

\* lead_data.update(high_confidence_data)
DictUpdate(ld, data) ==
    [k \in DictKeys |-> IF k \in LeadFields /\ data[k] # None THEN data[k] ELSE ld[k]]

\* The handlers' merge: a found value is stored when it is truthy and the
\* key is absent or holds a falsy value.
MergeFound(ld, found) ==
    [k \in DictKeys |->
        IF k \in LeadFields /\ Truthy(found[k]) /\ ~Truthy(ld[k])
        THEN found[k] ELSE ld[k]]

\* The end of every process_node: update the object from the whole dict, or
\* construct it from the dict when the state holds none.
SyncObj(obj, ld, min_first) ==
    IF obj.exists THEN update_from_dict(obj, AsKwargs(ld), min_first)
    ELSE LeadData(AsKwargs(ld))

SyncSwaps(obj, ld, min_first) ==
    IF obj.exists THEN SwapsOnUpdate(obj.fields, AsKwargs(ld), min_first)
    ELSE Reversed(AsKwargs(ld))

Init ==
    /\ lead_obj = NoLead
    /\ SessionIdle
    /\ missing = <<>>
    /\ priority = 0
    /\ swapped = FALSE
    /\ RepoIdle
    /\ MvpIdle
    /\ CallsIdle
    /\ pc = "idle"

\* The entry process_message appends to the log for a user message.
UserEntry(m) ==
    [role |-> "user", content |-> IF m.empty THEN "empty" ELSE "text"]

\* The entry a handler appends to its copy of the log with its response.
AssistantEntry == [role |-> "assistant", content |-> "text"]

\* process_message up to graph.ainvoke: the message is stored in the
\* caller's state and appended to its log, and the run starts at the
\* supervisor.
ProcessMessage ==
    /\ pc = "idle"
    /\ turns < MaxTurns
    /\ \E m \in UserMessages :
          LET log == Append(messages, UserEntry(m))
          IN  /\ current_message' = m
              /\ messages' = log
              /\ caller' = [lead_data |-> lead_data, next |-> next,
                            has_obj |-> lead_obj.exists, messages |-> log]
    /\ aliased' = TRUE
    /\ steps' = 0
    /\ decision' = NoDecision
    /\ last_node' = "none"
    /\ routing_decisions' = NoneAppended
    /\ failure' = NoFailure
    /\ analytics' = NoAnalytics
    /\ pc' = "supervisor"
    /\ UNCHANGED <<lead_obj, lead_data, next, error, consent_obtained, turns,
                   missing, priority, swapped, clobbered, saved, consent_alone>>
    /\ UNCHANGED <<repoVars, mvpVars, calls>>

\* An exception leaves graph.ainvoke: the run's state is gone, and the
\* caller's state holds what it held when the run began, with what the run
\* changed in place: the dict ld while the state's dict is the caller's,
\* the object obj when the caller's state held one.
GraphRaises(ld, obj) ==
    /\ lead_data' = IF aliased THEN ld ELSE caller.lead_data
    /\ lead_obj' = IF caller.has_obj THEN obj ELSE NoLead
    /\ next' = caller.next
    /\ messages' = caller.messages
    /\ steps' = 0
    /\ last_node' = "none"
    /\ pc' = "raised"
    /\ UNCHANGED <<routing_decisions, saved>>
    /\ UNCHANGED <<repoVars, mvpVars, calls>>

\* Some value the run held for the lead in found is neither in the dict
\* nor in the object of the state the caller is left with.
Lost(found, ld, obj) ==
    LET kept_data == IF aliased THEN ld ELSE caller.lead_data
        kept_obj == IF caller.has_obj THEN obj ELSE NoLead
    IN  \E k \in LeadFields :
           /\ found[k] # None
           /\ kept_data[k] # found[k]
           /\ kept_obj.fields[k] # found[k]

\* router_node on an empty message: straight to legal, nothing extracted.
RouterEmptyMessage ==
    /\ pc = "supervisor"
    /\ steps < MaxSteps
    /\ current_message.empty
    /\ decision' = [by |-> "empty", llm |-> "none", target |-> "legal"]
    /\ steps' = steps + 1
    /\ last_node' = "supervisor"
    /\ pc' = "dispatch"
    /\ UNCHANGED <<lead_obj, lead_data, next, current_message, error, caller,
                   aliased, consent_obtained, turns, missing, priority,
                   swapped, clobbered, routing_decisions, saved, failure,
                   consent_alone, messages, analytics>>
    /\ UNCHANGED <<repoVars, mvpVars, calls>>

\* The first half of router_node on a message: the extracted data go into
\* a copy of lead_data and into the object.
Extracted(data) ==
    LET ld == DictUpdate(lead_data, data)
    IN  [lead_data |-> ld,
         lead_obj |-> IF lead_obj.exists
                      THEN update_from_dict(lead_obj, data, TRUE)
                      ELSE LeadData(AsKwargs(ld)),
         swapped |-> IF lead_obj.exists
                     THEN SwapsOnUpdate(lead_obj.fields, data, TRUE)
                     ELSE Reversed(AsKwargs(ld))]

\* The end of router_node: the updates and the goto of its Command.
RouterCommand(x, by, llm, next_agent) ==
    /\ lead_data' = x.lead_data
    /\ lead_obj' = x.lead_obj
    /\ swapped' = x.swapped
    /\ next' = next_agent
    /\ aliased' = FALSE
    /\ decision' = [by |-> by, llm |-> llm, target |-> next_agent]
    /\ clobbered' = (\/ Clobbers(lead_data, x.lead_data, LeadFields)
                     \/ /\ lead_obj.exists
                        /\ Clobbers(lead_obj.fields, x.lead_obj.fields,
                                    LeadFields \ BudgetFields))
    /\ routing_decisions' = [len |-> routing_decisions.len + 1, last |-> next_agent]
    /\ steps' = steps + 1
    /\ last_node' = "supervisor"
    /\ pc' = "dispatch"
    /\ UNCHANGED <<current_message, error, caller, consent_obtained, turns,
                   missing, priority, saved, consent_alone, messages>>
    /\ UNCHANGED <<repoVars, mvpVars, calls>>

\* A track_conversation whose file operations are not inside a try.
track_conversation_unguarded(io) == [raised |-> ~io, result |-> io]

\* analytics_client.track_conversation: the event is appended to the
\* thread's file inside try / except Exception.  io: the file operations
\* succeed.  The call returns whether the event was recorded and raises
\* nothing.
track_conversation(io) == [raised |-> FALSE, result |-> io]

\* track_agent_assignment and track_lead_update build the event's data and
\* return track_conversation's result.
track_agent_assignment(io) == track_conversation(io)

track_lead_update(io) == track_conversation(io)

\* An exception leaves an analytics call made with the state x in hand.
AnalyticsRaises(x) ==
    /\ GraphRaises(lead_data, x.lead_obj)
    /\ swapped' = (lead_obj.exists /\ x.swapped)
    /\ failure' = [in |-> "analytics",
                   lost |-> Lost(x.lead_data, lead_data, x.lead_obj)]
    /\ decision' = [by |-> "raised", llm |-> "ok", target |-> "none"]
    /\ UNCHANGED <<current_message, error, caller, aliased, consent_obtained,
                   turns, missing, priority, clobbered, consent_alone>>

\* router_node, the LLM router answering with a target: the assignment is
\* tracked, then the Command is built.
RouterLLM ==
    /\ pc = "supervisor"
    /\ steps < MaxSteps
    /\ ~current_message.empty
    /\ \E data \in Extractions(current_message), t \in Targets, io \in BOOLEAN :
          LET tracked == track_agent_assignment(io)
          IN  /\ analytics' = [event |-> "agent_assignment",
                               recorded |-> tracked.result]
              /\ IF tracked.raised
                 THEN AnalyticsRaises(Extracted(data))
                 ELSE /\ RouterCommand(Extracted(data), "llm", "ok", t)
                      /\ UNCHANGED failure

\* router_node, the LLM router's answer raising KeyError, ValueError or
\* TypeError: decide_next_agent(state) on the state the node was given,
\* whose lead_data is not the updated copy and whose lead_obj is the object
\* updated in place, or None.
RouterFallback ==
    /\ pc = "supervisor"
    /\ steps < MaxSteps
    /\ ~current_message.empty
    /\ \E data \in Extractions(current_message) :
          LET x == Extracted(data)
              obj == IF lead_obj.exists THEN x.lead_obj ELSE NoLead
          IN  RouterCommand(x, "fallback", "malformed",
                            decide_next_agent(lead_data, obj, next,
                                              current_message))
    /\ UNCHANGED <<failure, analytics>>

\* router_node, the LLM router's call raising anything else (a timeout, a
\* connection or API error): the exception leaves router_node.  The object
\* the state held was already updated in place.
RouterRaises ==
    /\ pc = "supervisor"
    /\ steps < MaxSteps
    /\ ~current_message.empty
    /\ \E data \in Extractions(current_message) :
          LET x == Extracted(data)
          IN  /\ GraphRaises(lead_data, x.lead_obj)
              /\ swapped' = (lead_obj.exists /\ x.swapped)
              /\ failure' = [in |-> "router",
                             lost |-> Lost(x.lead_data, lead_data, x.lead_obj)]
    /\ decision' = [by |-> "raised", llm |-> "error", target |-> "none"]
    /\ UNCHANGED <<current_message, error, caller, aliased, consent_obtained,
                   turns, missing, priority, clobbered, consent_alone,
                   analytics>>

\* What the supervisor's conditional edge computes after the node.
EdgeResult == decide_next_agent(lead_data, lead_obj, next, current_message)

\* The Command's goto and the conditional edge name the same handler.
DispatchHandler ==
    /\ pc = "dispatch"
    /\ decision.target \in Handlers
    /\ steps < MaxSteps
    /\ EdgeResult \in DOMAIN EdgeTable
    /\ EdgeTable[EdgeResult] = decision.target
    /\ pc' = decision.target
    /\ decision' = NoDecision
    /\ clobbered' = FALSE
    /\ analytics' = NoAnalytics
    /\ UNCHANGED <<lead_obj, lead_data, next, current_message, error, caller,
                   aliased, consent_obtained, steps, turns, missing, priority,
                   swapped, last_node, routing_decisions, saved, failure,
                   consent_alone, messages>>
    /\ UNCHANGED <<repoVars, mvpVars, calls>>

\* The Command's goto is END, or the conditional edge's result is no key of
\* the edge table or names another node than the goto.  What the run does
\* then is the graph library's: it follows the Command or it raises.
DispatchUndefined ==
    \/ decision.target = "END"
    \/ EdgeResult \notin DOMAIN EdgeTable
    \/ EdgeResult \in DOMAIN EdgeTable /\ EdgeTable[EdgeResult] # decision.target

DispatchCommand ==
    /\ pc = "dispatch"
    /\ DispatchUndefined
    /\ decision.target = "END" \/ steps < MaxSteps
    /\ pc' = IF decision.target = "END" THEN "returned" ELSE decision.target
    /\ decision' = NoDecision
    /\ clobbered' = FALSE
    /\ analytics' = NoAnalytics
    /\ UNCHANGED <<lead_obj, lead_data, next, current_message, error, caller,
                   aliased, consent_obtained, steps, turns, missing, priority,
                   swapped, last_node, routing_decisions, saved, failure,
                   consent_alone, messages>>
    /\ UNCHANGED <<repoVars, mvpVars, calls>>

DispatchRaises ==
    /\ pc = "dispatch"
    /\ DispatchUndefined
    /\ GraphRaises(lead_data, lead_obj)
    /\ failure' = [in |-> "graph", lost |-> Lost(lead_data, lead_data, lead_obj)]
    /\ decision' = NoDecision
    /\ clobbered' = FALSE
    /\ analytics' = NoAnalytics
    /\ UNCHANGED <<current_message, error, caller, aliased, consent_obtained,
                   turns, missing, priority, swapped, consent_alone>>

\* A handler whose Command names the pending target instead of the
\* supervisor.
HandlerCommand_goto_next(ld) ==
    /\ lead_data' = ld
    /\ lead_obj' = SyncObj(lead_obj, ld, TRUE)
    /\ swapped' = SyncSwaps(lead_obj, ld, TRUE)
    /\ clobbered' = FALSE
    /\ steps' = steps + 1
    /\ last_node' = pc
    /\ pc' = IF next \in Handlers THEN next ELSE "returned"
    /\ messages' = Append(messages, AssistantEntry)
    /\ UNCHANGED <<next, current_message, error, caller, aliased, turns,
                   decision, missing, priority, routing_decisions, saved,
                   failure, analytics>>
    /\ UNCHANGED <<repoVars, mvpVars, calls>>

\* The end of a handler's process_node: Command(goto="supervisor") with the
\* dict and the object.
HandlerCommand(ld) ==
    /\ lead_data' = ld
    /\ \E min_first \in BOOLEAN :
          /\ min_first \/ \A f \in BudgetFields : ld[f] # None
          /\ lead_obj' = SyncObj(lead_obj, ld, min_first)
          /\ swapped' = SyncSwaps(lead_obj, ld, min_first)
          /\ clobbered' =
                (\/ Clobbers(lead_data, ld, LeadFields)
                 \/ /\ lead_obj.exists
                    /\ Clobbers(lead_obj.fields,
                                SyncObj(lead_obj, ld, min_first).fields,
                                LeadFields \ BudgetFields))
    /\ steps' = steps + 1
    /\ last_node' = pc
    /\ pc' = "supervisor"
    /\ messages' = Append(messages, AssistantEntry)
    /\ UNCHANGED <<next, current_message, error, caller, aliased, turns,
                   decision, missing, priority, routing_decisions, saved,
                   failure, analytics>>
    /\ UNCHANGED <<repoVars, mvpVars, calls>>

\* A handler's reply call raises after the handler changed the dict in
\* place.
HandlerRaises(ld) ==
    /\ GraphRaises(ld, lead_obj)
    /\ failure' = [in |-> "handler", lost |-> Lost(ld, ld, lead_obj)]
    /\ UNCHANGED <<current_message, error, caller, aliased, turns, decision,
                   missing, priority, swapped, clobbered, analytics>>

\* LegalAgent: the flag is raised by a stored consent of True; while it is
\* down, a consent word in the message stores consent in the dict.
ConsentSeen == consent_obtained \/ lead_data["consentimiento"] = 1

LegalNode ==
    /\ pc = "legal"
    /\ steps < MaxSteps
    /\ IF ~ConsentSeen /\ "consent" \in current_message.words
       THEN /\ consent_obtained' = TRUE
            /\ HandlerCommand([lead_data EXCEPT !["consentimiento"] = 1,
                                                !["fecha_consentimiento"] = 1])
       ELSE /\ consent_obtained' = ConsentSeen
            /\ HandlerCommand(lead_data)
    /\ consent_alone' = (\/ consent_alone
                         \/ lead_data["consentimiento"] = 1
                         \/ "consent" \in current_message.words)

LegalNodeRaises ==
    /\ pc = "legal"
    /\ steps < MaxSteps
    /\ consent_obtained' = ConsentSeen
    /\ consent_alone' = (consent_alone \/ lead_data["consentimiento"] = 1)
    /\ HandlerRaises(lead_data)

CollectorNode ==
    /\ pc = "collector"
    /\ steps < MaxSteps
    /\ LET ld == MergeFound(lead_data, Restrict(current_message.content, CollectorKeys))
       IN  HandlerCommand(ld) \/ HandlerRaises(ld)
    /\ UNCHANGED <<consent_obtained, consent_alone>>

\* LocationAgent: the structured extraction finds the places the text
\* names, or nothing.
LocationNode ==
    /\ pc = "location"
    /\ steps < MaxSteps
    /\ \E found \in {NoFields, Restrict(current_message.content, LocationKeys)} :
          LET ld == MergeFound(lead_data, found)
          IN  HandlerCommand(ld) \/ HandlerRaises(ld)
    /\ UNCHANGED <<consent_obtained, consent_alone>>

PreferencesNode ==
    /\ pc = "preferences"
    /\ steps < MaxSteps
    /\ LET ld == MergeFound(lead_data, Restrict(current_message.content, PreferencesKeys))
       IN  \/ HandlerCommand([ld EXCEPT !["ultima_interaccion"] = 1])
           \/ HandlerRaises(ld)
    /\ UNCHANGED <<consent_obtained, consent_alone>>

\* The run has executed MaxSteps nodes and another is due: the supervisor,
\* or the handler a routing decision names.
RecursionLimit ==
    /\ pc \in {"supervisor", "dispatch"}
    /\ pc = "dispatch" => decision.target \in Handlers
    /\ steps = MaxSteps
    /\ GraphRaises(lead_data, lead_obj)
    /\ failure' = [in |-> "graph", lost |-> Lost(lead_data, lead_data, lead_obj)]
    /\ decision' = NoDecision
    /\ clobbered' = FALSE
    /\ analytics' = NoAnalytics
    /\ UNCHANGED <<current_message, error, caller, aliased, consent_obtained,
                   turns, missing, priority, swapped, consent_alone>>

\* The caller's state once process_message has returned it.
Returned ==
    /\ caller' = [lead_data |-> lead_data, next |-> next,
                  has_obj |-> lead_obj.exists, messages |-> messages]
    /\ aliased' = TRUE
    /\ clobbered' = FALSE
    /\ turns' = turns + 1
    /\ pc' = "idle"

\* process_message after graph.ainvoke returned: the result's object, if it
\* holds one, is saved and the update is tracked, and the result is the
\* state.  An exception leaving the tracking call is caught by
\* process_message's except branch, which returns the caller's state.
ProcessMessageReturns ==
    /\ pc = "returned"
    /\ steps' = 0
    /\ saved' = IF lead_obj.exists THEN lead_obj ELSE saved
    /\ \E io \in BOOLEAN :
          LET tracked == track_lead_update(io)
              kept_data == IF aliased THEN lead_data ELSE caller.lead_data
              kept_obj == IF caller.has_obj THEN lead_obj ELSE NoLead
          IN  /\ analytics' = IF lead_obj.exists
                              THEN [event |-> "lead_update",
                                    recorded |-> tracked.result]
                              ELSE NoAnalytics
              /\ IF lead_obj.exists /\ tracked.raised
                 THEN /\ lead_data' = kept_data
                      /\ lead_obj' = kept_obj
                      /\ next' = caller.next
                      /\ messages' = caller.messages
                      /\ error' = TRUE
                      /\ failure' = [in |-> "analytics",
                                     lost |-> Lost(lead_data, lead_data, lead_obj)]
                      /\ last_node' = "none"
                      /\ caller' = [lead_data |-> kept_data,
                                    next |-> caller.next,
                                    has_obj |-> kept_obj.exists,
                                    messages |-> caller.messages]
                      /\ aliased' = TRUE
                      /\ clobbered' = FALSE
                      /\ turns' = turns + 1
                      /\ pc' = "idle"
                 ELSE /\ Returned
                      /\ UNCHANGED <<lead_obj, lead_data, next, error,
                                     messages, last_node, failure>>
    /\ UNCHANGED <<current_message, consent_obtained, decision, missing,
                   priority, swapped, routing_decisions, consent_alone>>
    /\ UNCHANGED <<repoVars, mvpVars, calls>>

\* An except branch that returns the state without recording the error.
ProcessMessageExcept_no_error ==
    /\ pc = "raised"
    /\ decision' = NoDecision
    /\ Returned
    /\ UNCHANGED <<lead_obj, lead_data, next, current_message, error,
                   consent_obtained, steps, missing, priority, swapped,
                   last_node, routing_decisions, saved, failure, consent_alone,
                   messages, analytics>>
    /\ UNCHANGED <<repoVars, mvpVars, calls>>

\* process_message's except branch: the caller's state is returned with
\* "error" set.
ProcessMessageExcept ==
    /\ pc = "raised"
    /\ error' = TRUE
    /\ decision' = NoDecision
    /\ Returned
    /\ UNCHANGED <<lead_obj, lead_data, next, current_message,
                   consent_obtained, steps, missing, priority, swapped,
                   last_node, routing_decisions, saved, failure, consent_alone,
                   messages, analytics>>
    /\ UNCHANGED <<repoVars, mvpVars, calls>>

\* start_conversation: another session begins with the initial state; the
\* graph, made once when the module is loaded, and its handler objects
\* serve it as they served the sessions before.
StartConversation ==
    /\ pc = "idle"
    /\ lead_obj' = NoLead
    /\ lead_data' = EmptyDict
    /\ next' = NoNext
    /\ current_message' = EmptyMessage
    /\ error' = FALSE
    /\ caller' = InitialCaller
    /\ messages' = InitialMessages
    /\ analytics' = NoAnalytics
    /\ aliased' = TRUE
    /\ steps' = 0
    /\ decision' = NoDecision
    /\ clobbered' = FALSE
    /\ last_node' = "none"
    /\ routing_decisions' = NoneAppended
    /\ saved' = NoLead
    /\ failure' = NoFailure
    /\ swapped' = FALSE
    /\ consent_alone' = FALSE
    /\ UNCHANGED <<consent_obtained, turns, missing, priority, pc>>
    /\ UNCHANGED <<repoVars, mvpVars, calls>>

Next ==
    \/ ProcessMessage
    \/ RouterEmptyMessage
    \/ RouterLLM
    \/ RouterFallback
    \/ RouterRaises
    \/ DispatchHandler
    \/ DispatchCommand
    \/ DispatchRaises
    \/ LegalNode
    \/ LegalNodeRaises
    \/ CollectorNode
    \/ LocationNode
    \/ PreferencesNode
    \/ RecursionLimit
    \/ ProcessMessageReturns
    \/ ProcessMessageExcept
    \/ StartConversation

Spec == Init /\ [][Next]_vars

(***************************************************************************)
(* Properties of the conversation.                                         *)
(***************************************************************************)
\* C1 (precedence law): whenever the supervisor has made a routing decision
\* and the lead's consent is not true at that time, the target is legal,
\* whoever made the decision: the LLM router, the pending next or the
\* fallback.
PrecedenceLaw ==
    (pc = "dispatch" /\ lead_data["consentimiento"] # 1)
        => decision.target = "legal"

\* C2 (first write wins): no router or handler step replaces a non-empty
\* value of the lead by another value.
FirstWriteWins == ~clobbered

\* C8 (routing never aborts): whenever the LLM router's answer fails, be it
\* malformed or the call raising, router_node returns a command whose
\* target the fallback chose among the five targets.
RoutingNeverAborts ==
    decision.llm \in {"malformed", "error"}
        => (decision.by = "fallback" /\ decision.target \in Targets)

\* C9 (total, single-valued routing): every routing decision is one of the
\* five targets, and what the supervisor's conditional edge computes for it
\* is a key of the graph's edge table.
RoutingDispatchable ==
    pc = "dispatch"
        => (decision.target \in Targets /\ EdgeResult \in DOMAIN EdgeTable)

\* C11 (scenario B): when the collector has processed a message holding a
\* name and an email for a lead that had consent and nothing else, the lead
\* holds the name and the email, and the next deterministic routing
\* decision, decide_next_agent on the state the collector left, is location.
ScenarioBNextRoute ==
    (/\ pc = "supervisor"
     /\ last_node = "collector"
     /\ Keys(current_message.content) = {"nombre", "email"}
     /\ lead_data["consentimiento"] = 1
     /\ Keys(AsKwargs(lead_data)) = {"consentimiento", "nombre", "email"})
        => (/\ lead_data["nombre"] = 1
            /\ lead_data["email"] = 1
            /\ EdgeResult = "location")

\* C12 (Ended is absorbing): in a turn of a session whose state came back
\* from an earlier turn with END as the routing decision, no handler is
\* invoked and the lead is what it was when the turn began.
EndedIsAbsorbing ==
    caller.next = "END"
        => (pc \notin Handlers /\ lead_data = caller.lead_data)

\* C13 (handlers hand control back): when a handler was the last node to
\* run, the node due next is the supervisor: never a handler, never the
\* end of the run.
HandlersHandBack == last_node \in Handlers => pc = "supervisor"

HandlersHandBackWitness ==
    /\ last_node \in {"collector", "location", "preferences"}
    /\ pc = "supervisor"
    /\ steps = 2
    /\ turns = 1

\* C14 (consent timestamp): the lead object's metadata holds a consent
\* timestamp exactly when its consent is true.
ConsentTimestamp ==
    lead_obj.exists
        => (lead_obj.fecha_consentimiento # None
               <=> lead_obj.fields["consentimiento"] = 1)

\* C15 (implicit consent): when the legal handler has processed a message
\* that contains one of its consent words, the lead's consent is true,
\* whatever the handler processed before.
ImplicitConsent ==
    (last_node = "legal" /\ "consent" \in current_message.words)
        => lead_data["consentimiento"] = 1

\* C16 (session isolation): what the legal handler reads of its own state
\* when it serves a turn is what it would read had it served this session
\* alone.
SessionIsolation ==
    pc = "legal" => consent_obtained = consent_alone

\* C17 (errors are contained): once an exception has ended a run, either
\* process_message is in its except branch or it has returned the state
\* with the error set and the session waits for its next message.
ErrorsContained ==
    failure.in # "none" => (pc = "raised" \/ (pc = "idle" /\ error))

\* The turn after a failed one has run a handler and gone back to the
\* supervisor.
ErrorsContainedWitness ==
    /\ error
    /\ turns = 1
    /\ failure.in = "none"
    /\ last_node \in Handlers
    /\ pc = "supervisor"

\* C18 (partial progress survives a failed reply): when a handler's reply
\* call has raised, every value the run held for the lead is in the state
\* process_message returns, and once it has returned, the lead object is
\* what is saved under the session id.
PartialProgressSurvives ==
    failure.in = "handler"
        => (/\ ~failure.lost
            /\ pc = "idle" => (lead_obj.exists /\ saved = lead_obj))

\* C19 (persistence tracks memory): between turns, what is saved under the
\* session id is the session's lead object.
PersistenceTracksMemory ==
    (pc = "idle" /\ lead_obj.exists) => saved = lead_obj

\* C20 (routing log): when router_node has chosen a target, it has appended
\* one entry to routing_decisions for each of its invocations in the run,
\* the empty message included, and the last entry names the target being
\* dispatched.
RoutingLogComplete ==
    pc = "dispatch"
        => (/\ routing_decisions.len = (steps + 1) \div 2
            /\ routing_decisions.last = decision.target)

\* C25 (one dispatch per turn): within one process_message call the
\* supervisor makes one routing decision; the run does not come back to it
\* to route the same message again.
OneDispatchPerTurn == routing_decisions.len <= 1

\* C26 (no stale routing target): the first routing decision of a turn that
\* decide_next_agent makes is the one it makes on the turn's data with no
\* target pending; a next left in the state by an earlier turn does not
\* decide it.
NoStaleTarget ==
    (pc = "dispatch" /\ steps = 1 /\ decision.by = "fallback")
        => decision.target =
              decide_next_agent(caller.lead_data,
                                IF caller.has_obj THEN lead_obj ELSE NoLead,
                                NoNext, current_message)

\* The fields that hold personal data.
PersonalFields ==
    {"nombre", "celular", "email", "tipo_documento", "numero_documento"}

\* C27 (no personal data before consent): in every state, a copy of the
\* lead that holds a personal data field holds a consentimiento of True.
NoPersonalDataBeforeConsent ==
    /\ (\E f \in PersonalFields : lead_data[f] # None)
          => lead_data["consentimiento"] = 1
    /\ (\E f \in PersonalFields : lead_obj.fields[f] # None)
          => lead_obj.fields["consentimiento"] = 1

\* C28 (the two copies agree): after every router or handler step of a run
\* in which lead_obj exists, lead_data and lead_obj hold the same fields
\* with the same values.
CopiesAgree ==
    (pc \in {"dispatch", "supervisor"} /\ last_node # "none" /\ lead_obj.exists)
        => AsKwargs(lead_data) = lead_obj.fields

\* The state of a session no turn has touched: what start_conversation
\* returned.
JustStarted == pc = "idle" /\ last_node = "none" /\ failure = NoFailure

\* C21 (start of a conversation): the state start_conversation returns has
\* an empty lead, no routing target, no error, and a message log whose only
\* entry is the assistant's welcome message, with no user message in it.
StartsWithWelcomeOnly ==
    JustStarted
        => (/\ lead_data = EmptyDict
            /\ ~lead_obj.exists
            /\ next = NoNext
            /\ ~error
            /\ messages = <<[role |-> "assistant", content |-> "welcome"]>>)

\* C23 (analytics is fire-and-forget): an analytics call, recorded or not,
\* raises nothing and leaves the turn on its path: after the router's
\* track_agent_assignment the LLM's target is being dispatched, and after
\* process_message's track_lead_update the result of the run is the state
\* returned and its object is the one saved.
AnalyticsFireAndForget ==
    /\ failure.in # "analytics"
    /\ analytics.event = "agent_assignment"
          => (/\ pc = "dispatch"
              /\ decision.by = "llm"
              /\ decision.target = next)
    /\ analytics.event = "lead_update"
          => (/\ pc = "idle"
              /\ failure = NoFailure
              /\ last_node = "supervisor"
              /\ next = "END"
              /\ saved = lead_obj)

AnalyticsFireAndForgetWitness ==
    /\ pc = "idle"
    /\ analytics = [event |-> "lead_update", recorded |-> FALSE]
    /\ lead_obj.fields["nombre"] = 1
    /\ lead_data["nombre"] = 1
    /\ turns = 2

(***************************************************************************)
(* The MVP graph: its handlers, called with a message each, and its edges. *)
(***************************************************************************)
\* Entries the history of an MVP conversation may hold before a handler is
\* no longer called.
MaxHistory == 9

\* What extract_property_type tells apart: departamento, casa, oficina,
\* terreno.
PropertyTypes == 1..4

\* A message, by what the handlers look at: whether it is empty or blank,
\* the property type its text names (None: none), and whether it contains
\* an affirmative term.
MvpMessages ==
    {NoMvpMessage} \cup
    [blank : {FALSE}, property_type : {None} \cup PropertyTypes,
     affirmative : BOOLEAN]

extract_property_type(m) == m.property_type

check_consent(m) == m.affirmative

\* welcome_handler: the state is initialized on the first call; the
\* message, unless blank, and the welcome go into the history, and the flow
\* becomes legal.
welcome_handler(state, m) ==
    LET s1 == IF ~state.initialized
              THEN [initialized |-> TRUE,
                    lead_data |-> [f \in MvpLeadFields |-> None],
                    history |-> <<>>,
                    current_flow |-> "welcome"]
              ELSE state
        h1 == IF ~m.blank THEN Append(s1.history, "user") ELSE s1.history
    IN  [state |-> [s1 EXCEPT !.history = Append(h1, "welcome"),
                              !.current_flow = "legal"],
         response |-> "welcome"]

\* legal_handler: while the flow is legal and consent is None, the property
\* type the message names is stored and the consent request is presented;
\* otherwise the message is checked for consent.
legal_handler(state, m) ==
    LET h1 == Append(state.history, "user")
    IN  IF state.current_flow = "legal" /\ state.lead_data["consentimiento"] = None
        THEN LET property_type == extract_property_type(m)
                 ld == IF Truthy(property_type)
                       THEN [state.lead_data EXCEPT !["tipo_inmueble"] = property_type]
                       ELSE state.lead_data
             IN  [state |-> [state EXCEPT !.lead_data = ld,
                                          !.history = Append(h1, "consent_request")],
                  response |-> "consent_request"]
        ELSE IF check_consent(m)
             THEN [state |-> [state EXCEPT !.lead_data["consentimiento"] = 1,
                                           !.current_flow = "core_data",
                                           !.history = Append(h1, "ask_name")],
                   response |-> "ask_name"]
             ELSE [state |-> [state EXCEPT !.history = Append(h1, "consent_retry")],
                   response |-> "consent_retry"]

\* The conditional edge out of legal.
legal_edge(state) ==
    IF state.lead_data["consentimiento"] = 1 THEN "core_data" ELSE "legal"

MvpInit ==
    /\ MvpIdle
    /\ lead_obj = NoLead
    /\ SessionIdle
    /\ RepoIdle
    /\ CallsIdle
    /\ missing = <<>>
    /\ priority = 0
    /\ swapped = FALSE
    /\ pc = "mvp"

\* The entry point: welcome, then the edge to legal.
MvpWelcome ==
    /\ mvp_node = "welcome"
    /\ \E m \in MvpMessages :
          LET r == welcome_handler(mvp_state, m)
          IN  /\ mvp_state' = r.state
              /\ mvp_response' = r.response
              /\ mvp_message' = m
    /\ mvp_node' = "legal"
    /\ UNCHANGED <<lead_obj, missing, priority, swapped, pc, sessionVars,
                   repoVars, calls>>

\* legal, then its conditional edge.
MvpLegal ==
    /\ mvp_node = "legal"
    /\ Len(mvp_state.history) + 2 <= MaxHistory
    /\ \E m \in MvpMessages :
          LET r == legal_handler(mvp_state, m)
          IN  /\ mvp_state' = r.state
              /\ mvp_response' = r.response
              /\ mvp_message' = m
              /\ mvp_node' = legal_edge(r.state)
    /\ UNCHANGED <<lead_obj, missing, priority, swapped, pc, sessionVars,
                   repoVars, calls>>

MvpNext == MvpWelcome \/ MvpLegal

MvpSpec == MvpInit /\ [][MvpNext]_vars

\* legal_handler has answered a message after it had presented the consent
\* request.
RepliedToRequest ==
    /\ mvp_response \in {"consent_request", "ask_name", "consent_retry"}
    /\ \E i \in 1..(Len(mvp_state.history) - 2) :
          mvp_state.history[i] = "consent_request"

\* C29 (the MVP consent flow makes progress): once welcome_handler has run
\* and legal_handler has presented the consent request, legal_handler on a
\* reply with an affirmative term sets consentimiento to True and the flow
\* to core_data, and on any other reply leaves the flow in legal and
\* consent unset.
ConsentFlowProgress ==
    RepliedToRequest
        => IF mvp_message.affirmative
           THEN /\ mvp_state.lead_data["consentimiento"] = 1
                /\ mvp_state.current_flow = "core_data"
           ELSE /\ mvp_state.lead_data["consentimiento"] = None
                /\ mvp_state.current_flow = "legal"

(***************************************************************************)
(* Two process_message calls submitted for one session that has just       *)
(* started.  process_message is a coroutine and takes no lock: while one   *)
(* call awaits graph.ainvoke, between two nodes of its run, the other call *)
(* may be submitted and may run.  Each run answers END at once or after    *)
(* the collector; no run raises.                                           *)
(***************************************************************************)
\* The messages the two calls bring: text with a name, an email, both or
\* neither.
OverlapMessages ==
    {m \in UserMessages :
        ~m.empty /\ m.words = {} /\ Keys(m.content) \subseteq CollectorKeys}

OverlapRoutes == {"END", "collector"}

\* What the session's state holds of the lead and of the log.
Session ==
    [lead_data |-> lead_data, lead_obj |-> lead_obj, messages |-> messages]

\* The state a call's run holds: its own lead_data; the object it made, or
\* the session's when the state it was given held one; its own copy of the
\* log once a handler has made one, the session's list before.
RunState(c) ==
    [lead_data |-> calls[c].lead_data,
     lead_obj |-> IF calls[c].shared_obj THEN lead_obj ELSE calls[c].lead_obj,
     messages |-> IF calls[c].own_log THEN calls[c].messages ELSE messages]

\* router_node on a run's state: the extracted data go into a copy of
\* lead_data and into the object.
RunRouter(run, data) ==
    LET ld == DictUpdate(run.lead_data, data)
    IN  [lead_data |-> ld,
         lead_obj |-> IF run.lead_obj.exists
                      THEN update_from_dict(run.lead_obj, data, TRUE)
                      ELSE LeadData(AsKwargs(ld)),
         messages |-> run.messages]

\* CollectorAgent.process_node on a run's state: what the message holds is
\* merged into lead_data, the object is updated from it, and the response
\* is appended to a copy of the log.
RunCollector(run, m) ==
    LET ld == MergeFound(run.lead_data, Restrict(m.content, CollectorKeys))
    IN  [lead_data |-> ld,
         lead_obj |-> SyncObj(run.lead_obj, ld, TRUE),
         messages |-> Append(run.messages, AssistantEntry)]

\* process_message up to graph.ainvoke: the message is stored in the
\* session's state and appended to its log, and the run takes the state as
\* its input.
SubmitCall(c) ==
    /\ calls[c].pc = "none"
    /\ \E m \in OverlapMessages :
          /\ current_message' = m
          /\ messages' = Append(messages, UserEntry(m))
          /\ calls' = [calls EXCEPT ![c] =
                          [pc |-> "supervisor", message |-> m,
                           data |-> NoFields, route |-> "none",
                           lead_data |-> lead_data, lead_obj |-> lead_obj,
                           shared_obj |-> lead_obj.exists,
                           messages |-> <<>>, own_log |-> FALSE]]
    /\ UNCHANGED <<lead_data, lead_obj, next, saved>>
    /\ UNCHANGED overlapFrame

\* router_node of a call's run.  The first time it extracts the message's
\* fields, or nothing, and the LLM names the target; after the collector it
\* extracts the same and the LLM names END.
CallSupervisor(c) ==
    /\ calls[c].pc = "supervisor"
    /\ \E data \in (IF calls[c].route = "none"
                    THEN {NoFields, Restrict(calls[c].message.content, ExtractedFields)}
                    ELSE {calls[c].data}),
          t \in (IF calls[c].route = "none" THEN OverlapRoutes ELSE {"END"}) :
          LET r == RunRouter(RunState(c), data)
          IN  /\ calls' = [calls EXCEPT
                             ![c].lead_data = r.lead_data,
                             ![c].lead_obj = r.lead_obj,
                             ![c].data = data,
                             ![c].route = IF @ = "none" THEN t ELSE @,
                             ![c].pc = IF t = "END" THEN "returned" ELSE t]
              /\ lead_obj' = IF calls[c].shared_obj THEN r.lead_obj ELSE lead_obj
    /\ UNCHANGED <<lead_data, messages, current_message, next, saved>>
    /\ UNCHANGED overlapFrame

\* The collector of a call's run, then the edge back to the supervisor.
CallCollector(c) ==
    /\ calls[c].pc = "collector"
    /\ LET r == RunCollector(RunState(c), calls[c].message)
       IN  /\ calls' = [calls EXCEPT
                          ![c].lead_data = r.lead_data,
                          ![c].lead_obj = r.lead_obj,
                          ![c].messages = r.messages,
                          ![c].own_log = TRUE,
                          ![c].pc = "supervisor"]
           /\ lead_obj' = IF calls[c].shared_obj THEN r.lead_obj ELSE lead_obj
    /\ UNCHANGED <<lead_data, messages, current_message, next, saved>>
    /\ UNCHANGED overlapFrame

\* graph.ainvoke returns: the result's object is saved and the result is
\* the session's state from now on.  A run still in flight keeps the list
\* it was given.
CallReturns(c) ==
    /\ calls[c].pc = "returned"
    /\ LET result == RunState(c)
       IN  /\ saved' = result.lead_obj
           /\ lead_data' = result.lead_data
           /\ lead_obj' = result.lead_obj
           /\ messages' = result.messages
           /\ current_message' = calls[c].message
           /\ next' = "END"
           /\ calls' = [d \in Callers |->
                          IF d = c THEN [calls[c] EXCEPT !.pc = "done"]
                          ELSE IF /\ calls[d].pc \notin {"none", "done"}
                                  /\ calls[c].own_log
                                  /\ ~calls[d].own_log
                          THEN [calls[d] EXCEPT !.messages = messages,
                                                !.own_log = TRUE]
                          ELSE calls[d]]
    /\ UNCHANGED overlapFrame

ConcurrentNext ==
    \E c \in Callers :
        \/ SubmitCall(c)
        \/ CallSupervisor(c)
        \/ CallCollector(c)
        \/ CallReturns(c)

ConcurrentSpec == Init /\ [][ConcurrentNext]_vars

\* One turn run alone on the state st with a call's message, extraction and
\* route.
SerialTurn(st, ch) ==
    LET r0 == [st EXCEPT !.messages = Append(@, UserEntry(ch.message))]
        r1 == RunRouter(r0, ch.data)
    IN  IF ch.route = "END" THEN r1
        ELSE RunRouter(RunCollector(r1, ch.message), ch.data)

\* What the two turns leave when one runs after the other, in either order.
SerialOutcomes ==
    LET started == [lead_data |-> EmptyDict, lead_obj |-> NoLead,
                    messages |-> InitialMessages]
    IN  {SerialTurn(SerialTurn(started, calls[o[1]]), calls[o[2]]) :
            o \in {<<1, 2>>, <<2, 1>>}}

\* C22 (per-session serialization): when two process_message calls for one
\* session have both returned, however they were submitted, the session's
\* lead and message log are those one of the two sequential orders of the
\* two turns leaves.
PerSessionSerialization ==
    (\A c \in Callers : calls[c].pc = "done") => Session \in SerialOutcomes

====
